---------------------------- MODULE Spec2Model ----------------------------
(***************************************************************************)
(* A model of the recipe API: the Recipe, Tag and Ingredient tables of     *)
(* core/models.py, the viewsets of recipe/views.py and the nested          *)
(* serializers of recipe/serializers.py.                                   *)
(*                                                                         *)
(* The store is the database: one function per table, from the primary    *)
(* key of each existing row to the row, and one auto-increment counter    *)
(* per table (a primary key is never handed out twice).  Every request    *)
(* is one atomic step (requests are handled one at a time); a request     *)
(* that ends in an unhandled exception keeps what it had written, as      *)
(* Django's default autocommit mode does.                                  *)
(***************************************************************************)
EXTENDS Integers, Sequences, FiniteSets, TLC

VARIABLES recipes, tags, ingredients, nextRecipeId, nextTagId,
          nextIngredientId, last, users, reqs

vars == <<recipes, tags, ingredients, nextRecipeId, nextTagId,
          nextIngredientId, last, users, reqs>>

store == <<recipes, tags, ingredients, nextRecipeId, nextTagId,
           nextIngredientId>>

(***************************************************************************)
(* Bounds of the model.                                                    *)
(***************************************************************************)
MaxRecipes == 2
MaxTags == 2
MaxIngredients == 2

Users == {1, 2}
Names == {"a", "b"}

(***************************************************************************)
(* HTTP status codes of rest_framework.status.                             *)
(***************************************************************************)
HTTP_200_OK == 200
HTTP_201_CREATED == 201
HTTP_204_NO_CONTENT == 204
HTTP_400_BAD_REQUEST == 400
HTTP_404_NOT_FOUND == 404
HTTP_500_INTERNAL_SERVER_ERROR == 500

(***************************************************************************)
(* Tables as functions.                                                    *)
(***************************************************************************)
Put(f, k, v) == [x \in DOMAIN f \cup {k} |-> IF x = k THEN v ELSE f[x]]
Remove(f, k) == [x \in DOMAIN f \ {k} |-> f[x]]
Restrict(f, S) == [x \in DOMAIN f \cap S |-> f[x]]
Range(s) == {s[i] : i \in DOMAIN s}

SetMax(S) == CHOOSE x \in S : \A y \in S : y <= x

(***************************************************************************)
(* core/models.py: the User table and its manager.  An email address is a  *)
(* sequence of characters; the User table is the sequence of its rows, a   *)
(* user's primary key being the position of the row.                       *)
(***************************************************************************)
MaxUsers == 2
MaxEmailLen == 3

EmailChars == {"A", "@", " "}
Emails == UNION {[1..n -> EmailChars] : n \in 0..MaxEmailLen}
Passwords == {"test", "testpass123"}
ExtraFields == {<<>>, [name |-> "n"]}

\* str.lower on one character and on a string.
lower(c) == IF c = "A" THEN "a" ELSE c
Lower(s) == [i \in DOMAIN s |-> lower(s[i])]

\* str.strip: the whitespace at both ends goes.
RECURSIVE lstrip(_)
lstrip(s) == IF s # <<>> /\ Head(s) = " " THEN lstrip(Tail(s)) ELSE s

RECURSIVE rstrip(_)
rstrip(s) ==
    IF s # <<>> /\ s[Len(s)] = " "
    THEN rstrip(SubSeq(s, 1, Len(s) - 1))
    ELSE s

strip(s) == rstrip(lstrip(s))

\* The positions of the @ signs of an address.
AtSigns(s) == {i \in DOMAIN s : s[i] = "@"}

\* A normalisation that lowercases the whole address.
normalize_email_lower_all(email) ==
    LET e == strip(email)
    IN  IF AtSigns(e) = {} THEN email ELSE Lower(e)

\* BaseUserManager.normalize_email: email.strip().rsplit('@', 1), the domain
\* part lowercased; an address without an @ is returned as it came.
normalize_email(email) ==
    LET e == strip(email)
    IN  IF AtSigns(e) = {}
        THEN email
        ELSE LET k == SetMax(AtSigns(e))
             IN  SubSeq(e, 1, k - 1) \o <<"@">>
                    \o Lower(SubSeq(e, k + 1, Len(e)))

\* user.set_password(password): the hash is stored, never the password.
make_password(password) == [hash_of |-> password]

\* self.model(email=..., **kwargs): a User with the defaults of its fields.
NewUser(email, kwargs) ==
    [email |-> email,
     name |-> IF "name" \in DOMAIN kwargs THEN kwargs.name ELSE "",
     password |-> make_password(""),
     is_active |-> TRUE,
     is_staff |-> FALSE,
     is_superuser |-> FALSE]

\* An insert into a User table whose email column is not unique.
UserInsert_not_unique(tbl, row) ==
    [error |-> "", id |-> Len(tbl) + 1, tbl |-> Append(tbl, row)]

\* user.save() of a new User: email is unique=True, so the insert of a
\* second row with an email of the table raises IntegrityError.
UserInsert(tbl, row) ==
    IF \E i \in DOMAIN tbl : tbl[i].email = row.email
    THEN [error |-> "IntegrityError", id |-> 0, tbl |-> tbl]
    ELSE [error |-> "", id |-> Len(tbl) + 1, tbl |-> Append(tbl, row)]

\* A create_user without the check of the email.
create_user_unchecked(tbl, email, password, kwargs) ==
    UserInsert(tbl, [NewUser(normalize_email(email), kwargs)
                        EXCEPT !.password = make_password(password)])

\* UserManger.create_user
create_user(tbl, email, password, kwargs) ==
    IF email = <<>>
    THEN [error |-> "ValueError", id |-> 0, tbl |-> tbl]
    ELSE UserInsert(tbl, [NewUser(normalize_email(email), kwargs)
                             EXCEPT !.password = make_password(password)])

\* UserManger.create_superuser
create_superuser(tbl, email, password) ==
    LET r == create_user(tbl, email, password, <<>>)
    IN  IF r.error # ""
        THEN r
        ELSE [r EXCEPT !.tbl = [r.tbl EXCEPT ![r.id].is_staff = TRUE,
                                             ![r.id].is_superuser = TRUE]]

\* The accounts the tests' setUp creates for the callers of the recipe API.
SetUpUsers ==
    create_user(
        create_user(<<>>, <<"a", "@", "a">>, "testpass123", <<>>).tbl,
        <<"b", "@", "a">>, "testpass123", <<>>).tbl

(***************************************************************************)
(* Request inputs.  A payload is a function from the keys the client sent  *)
(* to their values; a nested tags entry is a record with a name.  The      *)
(* scalar values are small samples of each field's type.                   *)
(***************************************************************************)
TagEntries(names) == [i \in DOMAIN names |-> [name |-> names[i]]]

Payloads ==
    { [title |-> "t1", time_minutes |-> 5, price |-> 100,
       tags |-> TagEntries(<<"a", "b">>)],
      [title |-> "t1", time_minutes |-> 5, price |-> 100,
       tags |-> TagEntries(<<"a">>), user |-> 2],
      [title |-> "t2", user |-> 1],
      [tags |-> TagEntries(<<>>)],
      [tags |-> TagEntries(<<"b">>)],
      [tags |-> TagEntries(<<"a", "a">>)],
      [title |-> "t1", time_minutes |-> 5, price |-> 100,
       ingredients |-> TagEntries(<<"a">>)] }

(***************************************************************************)
(* recipe/serializers.py                                                   *)
(***************************************************************************)
RecipeSerializerFields ==
    {"id", "title", "time_minutes", "price", "link", "tags"}
RecipeSerializerReadOnly == {"id"}
RecipeDetailSerializerFields == RecipeSerializerFields \cup {"description"}

\* The model fields a ModelSerializer requires: those of Recipe declared
\* without blank=True, null=True or a default, among the serializer's fields.
RequiredFields == {"title", "time_minutes", "price"}

\* serializer.is_valid(): with partial=False every required field is there.
is_valid(payload, partial) ==
    partial \/ RequiredFields \subseteq DOMAIN payload

\* A serializer that lists user among its writable fields.
validated_data_with_user(payload) ==
    Restrict(payload, (RecipeDetailSerializerFields \cup {"user"})
                         \ RecipeSerializerReadOnly)

\* serializer.validated_data: the payload's keys that are writable fields of
\* the serializer; any other key of the payload is dropped.
validated_data(payload) ==
    Restrict(payload, RecipeDetailSerializerFields \ RecipeSerializerReadOnly)

\* get_or_create(**tag) without user=user: the lookup is by name alone.
get_or_create_by_name(tbl, next, user, name) ==
    LET match == {t \in DOMAIN tbl : tbl[t].name = name}
    IN  IF Cardinality(match) > 1
        THEN [error |-> TRUE, obj |-> 0, created |-> FALSE,
              tbl |-> tbl, next |-> next]
        ELSE IF match = {}
        THEN [error |-> FALSE, obj |-> next, created |-> TRUE,
              tbl |-> Put(tbl, next, [name |-> name, user |-> user]),
              next |-> next + 1]
        ELSE [error |-> FALSE, obj |-> CHOOSE t \in match : TRUE,
              created |-> FALSE, tbl |-> tbl, next |-> next]

\* Tag.objects.get_or_create(user=user, name=name) on the Tag table `tbl`
\* whose next primary key is `next`: the one row that matches is returned,
\* a row is inserted when none matches, and get() raises
\* MultipleObjectsReturned (error) when several match.
get_or_create(tbl, next, user, name) ==
    LET match == {t \in DOMAIN tbl :
                    tbl[t].user = user /\ tbl[t].name = name}
    IN  IF Cardinality(match) > 1
        THEN [error |-> TRUE, obj |-> 0, created |-> FALSE,
              tbl |-> tbl, next |-> next]
        ELSE IF match = {}
        THEN [error |-> FALSE, obj |-> next, created |-> TRUE,
              tbl |-> Put(tbl, next, [name |-> name, user |-> user]),
              next |-> next + 1]
        ELSE [error |-> FALSE, obj |-> CHOOSE t \in match : TRUE,
              created |-> FALSE, tbl |-> tbl, next |-> next]

\* RecipeSerializer._get_or_create_tags: st is the Tag table, its counter,
\* the recipe's tag set and whether an exception ended the loop.
RECURSIVE _get_or_create_tags(_, _, _)
_get_or_create_tags(st, user, entries) ==
    IF entries = <<>> \/ st.error
    THEN st
    ELSE LET r == get_or_create(st.tbl, st.next, user, Head(entries).name)
         IN  IF r.error
             THEN [st EXCEPT !.error = TRUE]
             ELSE _get_or_create_tags(
                      [error |-> FALSE, tbl |-> r.tbl, next |-> r.next,
                       assoc |-> st.assoc \cup {r.obj}],
                      user, Tail(entries))

\* Recipe.objects.create(**validated_data): the new row, with the model's
\* defaults for the fields the data leaves out and empty many-to-many sets.
NewRecipe(data) ==
    [user |-> data.user,
     title |-> data.title,
     time_minutes |-> data.time_minutes,
     price |-> data.price,
     link |-> IF "link" \in DOMAIN data THEN data.link ELSE "",
     description |-> IF "description" \in DOMAIN data
                     THEN data.description ELSE "",
     tags |-> {},
     ingredients |-> {}]

\* The setattr loop of RecipeSerializer.update.
SetAttrs(row, data) ==
    [k \in DOMAIN row |-> IF k \in DOMAIN data THEN data[k] ELSE row[k]]

\* serializer.save(user=request.user): the keyword arguments of save() are
\* merged over the validated data.
SaveData(vd, user) ==
    [k \in DOMAIN vd \cup {"user"} |-> IF k = "user" THEN user ELSE vd[k]]

\* RecipeSerializer.create on the store: the recipe row is inserted first,
\* then the tags are reconciled one at a time.
SerializerCreate(data, caller) ==
    LET entries == IF "tags" \in DOMAIN data THEN data.tags ELSE <<>>
        rid == nextRecipeId
        row == NewRecipe(Restrict(data, DOMAIN data \ {"tags"}))
        st == _get_or_create_tags(
                  [error |-> FALSE, tbl |-> tags, next |-> nextTagId,
                   assoc |-> {}], caller, entries)
    IN  [error |-> st.error, id |-> rid,
         recipes |-> Put(recipes, rid, [row EXCEPT !.tags = st.assoc]),
         tags |-> st.tbl, nextTagId |-> st.next]

\* An update that pops tags with the default [] instead of None: the
\* associations are cleared whether or not the payload has the key.
SerializerUpdate_pop_default_list(rid, data, caller) ==
    LET entries == IF "tags" \in DOMAIN data THEN data.tags ELSE <<>>
        st == _get_or_create_tags(
                  [error |-> FALSE, tbl |-> tags, next |-> nextTagId,
                   assoc |-> {}], caller, entries)
        row == [recipes[rid] EXCEPT !.tags = st.assoc]
        saved == IF st.error
                 THEN row
                 ELSE SetAttrs(row, Restrict(data, DOMAIN data \ {"tags"}))
    IN  [error |-> st.error, id |-> rid,
         recipes |-> [recipes EXCEPT ![rid] = saved],
         tags |-> st.tbl, nextTagId |-> st.next]

\* RecipeSerializer.update on the store: with a tags key the associations
\* are cleared and rebuilt; the scalar fields are set and saved afterwards.
SerializerUpdate(rid, data, caller) ==
    LET hasTags == "tags" \in DOMAIN data
        st == IF hasTags
              THEN _get_or_create_tags(
                       [error |-> FALSE, tbl |-> tags, next |-> nextTagId,
                        assoc |-> {}], caller, data.tags)
              ELSE [error |-> FALSE, tbl |-> tags, next |-> nextTagId,
                    assoc |-> recipes[rid].tags]
        row == [recipes[rid] EXCEPT !.tags = st.assoc]
        saved == IF st.error
                 THEN row
                 ELSE SetAttrs(row, Restrict(data, DOMAIN data \ {"tags"}))
    IN  [error |-> st.error, id |-> rid,
         recipes |-> [recipes EXCEPT ![rid] = saved],
         tags |-> st.tbl, nextTagId |-> st.next]

(***************************************************************************)
(* recipe/views.py                                                         *)
(***************************************************************************)
\* A tags / ingredients query parameter is a string, here the sequence of
\* its characters; the empty string is a parameter that is absent or empty,
\* which `if tags:` skips.  QueryParams are "", "1" and "2,1", lists of
\* ids; QueryStrings have "1," and "x" as well.
QueryParams == {<<>>, <<"1">>, <<"2", ",", "1">>}
QueryStrings == QueryParams \cup {<<"1", ",">>, <<"x">>}

\* str.split(sep): the pieces between the separators, empty pieces kept.
RECURSIVE split(_, _)
split(s, sep) ==
    IF \A i \in DOMAIN s : s[i] # sep
    THEN <<s>>
    ELSE LET i == CHOOSE k \in DOMAIN s :
                     s[k] = sep /\ \A j \in 1..(k - 1) : s[j] # sep
         IN  <<SubSeq(s, 1, i - 1)>> \o split(SubSeq(s, i + 1, Len(s)), sep)

Digits == <<"0", "1", "2", "3", "4", "5", "6", "7", "8", "9">>

\* The strings of QueryStrings int() takes: one decimal digit or more.  On
\* the others, the empty one included, int() raises ValueError.
IsDecimal(s) == s # <<>> /\ \A i \in DOMAIN s : s[i] \in Range(Digits)

\* int(s) of a string of decimal digits.
RECURSIVE int(_)
int(s) ==
    IF s = <<>>
    THEN 0
    ELSE 10 * int(SubSeq(s, 1, Len(s) - 1))
            + (CHOOSE d \in 0..9 : Digits[d + 1] = s[Len(s)])

\* RecipeViewSet._params_to_ids: the list of int(id) for the pieces of the
\* query string, or the ValueError of the first int() that raises.
_params_to_ids(query_string) ==
    LET ids == split(query_string, ",")
    IN  IF \E i \in DOMAIN ids : ~IsDecimal(ids[i])
        THEN [error |-> "ValueError", ids |-> <<>>]
        ELSE [error |-> "", ids |-> [i \in DOMAIN ids |-> int(ids[i])]]

\* queryset.filter(tags__id__in=...).filter(ingredients__id__in=...): the
\* rows of the SQL join, one per recipe and matching tag and matching
\* ingredient (0 stands for a table that is not joined).
JoinRows(tag_q, ingredient_q) ==
    LET tag_ids == Range(_params_to_ids(tag_q).ids)
        ingredient_ids == Range(_params_to_ids(ingredient_q).ids)
    IN  { <<r, t, i>> \in
            (DOMAIN recipes) \X (DOMAIN tags \cup {0})
                             \X (DOMAIN ingredients \cup {0}) :
            /\ IF tag_q # <<>>
               THEN t \in recipes[r].tags /\ t \in tag_ids
               ELSE t = 0
            /\ IF ingredient_q # <<>>
               THEN i \in recipes[r].ingredients /\ i \in ingredient_ids
               ELSE i = 0 }

\* order_by('id'): the lowest recipe id first.
RECURSIVE order_by_id_asc(_)
order_by_id_asc(rows) ==
    IF rows = {}
    THEN <<>>
    ELSE LET low == CHOOSE x \in rows : \A y \in rows : x[1] <= y[1]
         IN  <<low[1]>> \o order_by_id_asc(rows \ {low})

\* order_by('-id') of a set of join rows: the recipe id of every row, the
\* highest first, a recipe once per row it has.
RECURSIVE order_by_id_desc(_)
order_by_id_desc(rows) ==
    IF rows = {}
    THEN <<>>
    ELSE LET top == SetMax({row[1] : row \in rows})
             row == CHOOSE x \in rows : x[1] = top
         IN  <<top>> \o order_by_id_desc(rows \ {row})

\* A queryset without distinct(): every row of the join stays.
distinct_left_out(seq) == seq

\* distinct() on the ordered recipe rows: equal rows are collapsed.
RECURSIVE distinct(_)
distinct(seq) ==
    IF seq = <<>>
    THEN <<>>
    ELSE LET rest == distinct(Tail(seq))
         IN  IF Head(seq) \in Range(rest)
             THEN rest
             ELSE <<Head(seq)>> \o rest

\* The exception get_queryset ends with, "" when it returns: the first
\* _params_to_ids that raises, for a parameter that `if` does not skip.
get_queryset_error(tag_q, ingredient_q) ==
    IF tag_q # <<>> /\ _params_to_ids(tag_q).error # ""
    THEN _params_to_ids(tag_q).error
    ELSE IF ingredient_q # <<>> /\ _params_to_ids(ingredient_q).error # ""
    THEN _params_to_ids(ingredient_q).error
    ELSE ""

\* get_queryset without filter(user=self.request.user).
get_queryset_all_users(user, tag_q, ingredient_q) ==
    distinct(order_by_id_desc(JoinRows(tag_q, ingredient_q)))

\* RecipeViewSet.get_queryset for request.user = user.
get_queryset(user, tag_q, ingredient_q) ==
    distinct(order_by_id_desc(
        {row \in JoinRows(tag_q, ingredient_q) :
            recipes[row[1]].user = user}))

\* get_object over Recipe.objects.all(): any existing recipe is found.
get_object_found_unscoped(user, rid) == rid \in DOMAIN recipes

\* GenericAPIView.get_object over get_queryset: the recipe the detail views
\* act on, or Http404.
get_object_found(user, rid) == rid \in Range(get_queryset(user, <<>>, <<>>))

\* A get_queryset without filter(user=self.request.user).
attr_queryset_all_users(tbl, user) == DOMAIN tbl

\* BaseRecipeAttrViewSet.get_queryset on the Tag or Ingredient table: the
\* rows that filter(user=self.request.user) keeps.
attr_queryset(tbl, user) == {t \in DOMAIN tbl : tbl[t].user = user}

\* The collation of the names: "a" sorts before "b".
NameRank(name) == IF name = "a" THEN 1 ELSE 2

\* The orders in which the rows `ids` of `tbl` can come.
Orderings(ids) ==
    {s \in [1..Cardinality(ids) -> ids] :
        \A i, j \in DOMAIN s : i # j => s[i] # s[j]}

\* order_by('name'): the lowest name first.
order_by_name_asc(tbl, ids) ==
    {s \in Orderings(ids) :
        \A i, j \in DOMAIN s :
           i < j => NameRank(tbl[s[i]].name) <= NameRank(tbl[s[j]].name)}

\* order_by('-name'): the highest name first; rows of the same name come in
\* an order the database chooses.
order_by_name_desc(tbl, ids) ==
    {s \in Orderings(ids) :
        \A i, j \in DOMAIN s :
           i < j => NameRank(tbl[s[i]].name) >= NameRank(tbl[s[j]].name)}

\* get_object over the whole table: any existing row is found.
attr_object_found_unscoped(tbl, user, id) == id \in DOMAIN tbl

\* GenericAPIView.get_object over BaseRecipeAttrViewSet.get_queryset.
attr_object_found(tbl, user, id) == id \in attr_queryset(tbl, user)

\* What a request leaves behind: who asked for what, the data the view
\* handed to its serializer (NoData when the request ended before that, or
\* has none) and the response.
Response(op, user, id, status, data, body) ==
    [op |-> op, user |-> user, id |-> id, status |-> status,
     data |-> data, body |-> body]

NoBody == <<>>
NoData == <<>>

\* The requests that may be in flight at the same time, and one that is not.
Requests == {1, 2}
IdleRequest == [pc |-> "idle"]

Init ==
    /\ recipes = <<>>
    /\ tags = <<>>
    /\ ingredients = <<>>
    /\ nextRecipeId = 1
    /\ nextTagId = 1
    /\ nextIngredientId = 1
    /\ last = Response("none", 0, 0, 0, NoData, NoBody)
    /\ users = SetUpUsers
    /\ reqs = [q \in Requests |-> IdleRequest]

\* GET /recipes/?tags=..&ingredients=..  No handler catches an exception
\* of get_queryset: the request ends in a server error.
RecipeList(user, tag_q, ingredient_q) ==
    /\ IF get_queryset_error(tag_q, ingredient_q) # ""
       THEN last' = Response("list", user, 0, HTTP_500_INTERNAL_SERVER_ERROR,
                             [tags |-> tag_q, ingredients |-> ingredient_q],
                             <<get_queryset_error(tag_q, ingredient_q)>>)
       ELSE last' = Response("list", user, 0, HTTP_200_OK,
                             [tags |-> tag_q, ingredients |-> ingredient_q],
                             get_queryset(user, tag_q, ingredient_q))
    /\ UNCHANGED store
    /\ UNCHANGED <<users, reqs>>

\* GET /recipes/{id}/
RecipeRetrieve(user, rid) ==
    /\ IF get_object_found(user, rid)
       THEN last' = Response("retrieve", user, rid, HTTP_200_OK,
                             NoData, NoBody)
       ELSE last' = Response("retrieve", user, rid, HTTP_404_NOT_FOUND,
                             NoData, NoBody)
    /\ UNCHANGED store
    /\ UNCHANGED <<users, reqs>>

\* POST /recipes/: CreateModelMixin.create, perform_create and
\* RecipeSerializer.create.
RecipeCreate(user, payload) ==
    /\ IF ~is_valid(payload, FALSE)
       THEN /\ last' = Response("create", user, 0, HTTP_400_BAD_REQUEST,
                                NoData, NoBody)
            /\ UNCHANGED store
       ELSE LET r == SerializerCreate(
                         SaveData(validated_data(payload), user), user)
            IN  /\ nextRecipeId <= MaxRecipes
                /\ r.nextTagId <= MaxTags + 1
                /\ recipes' = r.recipes
                /\ tags' = r.tags
                /\ nextTagId' = r.nextTagId
                /\ nextRecipeId' = nextRecipeId + 1
                /\ last' = IF r.error
                           THEN Response("create", user, r.id,
                                    HTTP_500_INTERNAL_SERVER_ERROR,
                                    payload, NoBody)
                           ELSE Response("create", user, r.id,
                                    HTTP_201_CREATED, payload, NoBody)
                /\ UNCHANGED <<ingredients, nextIngredientId>>
    /\ UNCHANGED <<users, reqs>>

\* PUT (partial = FALSE) and PATCH (partial = TRUE) /recipes/{id}/:
\* UpdateModelMixin.update and RecipeSerializer.update.
RecipeUpdate(user, rid, payload, partial) ==
    /\ LET op == IF partial THEN "patch" ELSE "put"
       IN  IF ~get_object_found(user, rid)
           THEN /\ last' = Response(op, user, rid, HTTP_404_NOT_FOUND,
                                    NoData, NoBody)
                /\ UNCHANGED store
           ELSE IF ~is_valid(payload, partial)
           THEN /\ last' = Response(op, user, rid, HTTP_400_BAD_REQUEST,
                                    NoData, NoBody)
                /\ UNCHANGED store
           ELSE LET r == SerializerUpdate(rid, validated_data(payload), user)
                IN  /\ r.nextTagId <= MaxTags + 1
                    /\ recipes' = r.recipes
                    /\ tags' = r.tags
                    /\ nextTagId' = r.nextTagId
                    /\ last' = IF r.error
                               THEN Response(op, user, rid,
                                        HTTP_500_INTERNAL_SERVER_ERROR,
                                        payload, NoBody)
                               ELSE Response(op, user, rid, HTTP_200_OK,
                                        payload, NoBody)
                    /\ UNCHANGED <<ingredients, nextRecipeId, nextIngredientId>>
    /\ UNCHANGED <<users, reqs>>

\* A delete of the queryset instead of the instance: every recipe of the
\* recipe's owner goes.
DeleteRecipe_whole_queryset(rid) ==
    Restrict(recipes, {r \in DOMAIN recipes :
                          recipes[r].user # recipes[rid].user})

\* Model.delete() of a recipe: the row and its rows in the two
\* many-to-many tables go; the Tag and Ingredient tables are not touched.
DeleteRecipe(rid) == Remove(recipes, rid)

\* DELETE /recipes/{id}/: DestroyModelMixin.destroy.
RecipeDestroy(user, rid) ==
    /\ IF ~get_object_found(user, rid)
       THEN /\ last' = Response("delete", user, rid, HTTP_404_NOT_FOUND,
                                NoData, NoBody)
            /\ UNCHANGED store
       ELSE /\ recipes' = DeleteRecipe(rid)
            /\ last' = Response("delete", user, rid, HTTP_204_NO_CONTENT,
                                NoData, NoBody)
            /\ UNCHANGED <<tags, ingredients, nextRecipeId, nextTagId,
                           nextIngredientId>>
    /\ UNCHANGED <<users, reqs>>

\* The rows of a recipe in the table of a ManyToManyField when the row they
\* point to is deleted and the rows are left as they are.
DeleteThroughRows_kept(assoc, id) == assoc

\* The rows of a recipe in the table of a ManyToManyField after the delete
\* of the tag or ingredient id: the row that points to it is deleted with it.
DeleteThroughRows(assoc, id) == assoc \ {id}

\* PATCH /tags/{id}/ with a name: UpdateModelMixin on TagViewSet.
TagUpdate(user, tid, name) ==
    /\ IF ~attr_object_found(tags, user, tid)
       THEN /\ last' = Response("tag_patch", user, tid, HTTP_404_NOT_FOUND,
                                NoData, NoBody)
            /\ UNCHANGED store
       ELSE /\ tags' = [tags EXCEPT ![tid].name = name]
            /\ last' = Response("tag_patch", user, tid, HTTP_200_OK,
                                [name |-> name], NoBody)
            /\ UNCHANGED <<recipes, ingredients, nextRecipeId, nextTagId,
                           nextIngredientId>>
    /\ UNCHANGED <<users, reqs>>

\* DELETE /tags/{id}/: DestroyModelMixin on TagViewSet; the tag's rows in
\* the recipe-tag table go with it.
TagDestroy(user, tid) ==
    /\ IF ~attr_object_found(tags, user, tid)
       THEN /\ last' = Response("tag_delete", user, tid, HTTP_404_NOT_FOUND,
                                NoData, NoBody)
            /\ UNCHANGED store
       ELSE /\ tags' = Remove(tags, tid)
            /\ recipes' = [r \in DOMAIN recipes |->
                             [recipes[r] EXCEPT
                                !.tags = DeleteThroughRows(@, tid)]]
            /\ last' = Response("tag_delete", user, tid, HTTP_204_NO_CONTENT,
                                NoData, NoBody)
            /\ UNCHANGED <<ingredients, nextRecipeId, nextTagId,
                           nextIngredientId>>
    /\ UNCHANGED <<users, reqs>>

\* PATCH /ingredients/{id}/ with a name: UpdateModelMixin on
\* IngredientViewSet.
IngredientUpdate(user, iid, name) ==
    /\ IF ~attr_object_found(ingredients, user, iid)
       THEN /\ last' = Response("ingredient_patch", user, iid,
                                HTTP_404_NOT_FOUND, NoData, NoBody)
            /\ UNCHANGED store
       ELSE /\ ingredients' = [ingredients EXCEPT ![iid].name = name]
            /\ last' = Response("ingredient_patch", user, iid, HTTP_200_OK,
                                [name |-> name], NoBody)
            /\ UNCHANGED <<recipes, tags, nextRecipeId, nextTagId,
                           nextIngredientId>>
    /\ UNCHANGED <<users, reqs>>

\* DELETE /ingredients/{id}/: DestroyModelMixin on IngredientViewSet; the
\* ingredient's rows in the recipe-ingredient table go with it.
IngredientDestroy(user, iid) ==
    /\ IF ~attr_object_found(ingredients, user, iid)
       THEN /\ last' = Response("ingredient_delete", user, iid,
                                HTTP_404_NOT_FOUND, NoData, NoBody)
            /\ UNCHANGED store
       ELSE /\ ingredients' = Remove(ingredients, iid)
            /\ recipes' = [r \in DOMAIN recipes |->
                             [recipes[r] EXCEPT
                                !.ingredients = DeleteThroughRows(@, iid)]]
            /\ last' = Response("ingredient_delete", user, iid,
                                HTTP_204_NO_CONTENT, NoData, NoBody)
            /\ UNCHANGED <<tags, nextRecipeId, nextTagId, nextIngredientId>>
    /\ UNCHANGED <<users, reqs>>

\* The values of the assigned_only query parameter: absent (0) or 1.
AssignedOnly == {0, 1}

\* GET /tags/?assigned_only=..: ListModelMixin on TagViewSet.  get_queryset
\* does not read the query parameters.
TagList(user, assigned_only) ==
    /\ \E body \in order_by_name_desc(tags, attr_queryset(tags, user)) :
          last' = Response("tag_list", user, 0, HTTP_200_OK,
                           [assigned_only |-> assigned_only], body)
    /\ UNCHANGED <<store, users, reqs>>

\* GET /ingredients/?assigned_only=..: ListModelMixin on IngredientViewSet.
IngredientList(user, assigned_only) ==
    /\ \E body \in order_by_name_desc(ingredients,
                                      attr_queryset(ingredients, user)) :
          last' = Response("ingredient_list", user, 0, HTTP_200_OK,
                           [assigned_only |-> assigned_only], body)
    /\ UNCHANGED <<store, users, reqs>>

RecipeIds == 1..MaxRecipes
TagIds == 1..MaxTags
IngredientIds == 1..MaxIngredients

Next ==
    \/ \E u \in Users, p \in Payloads : RecipeCreate(u, p)
    \/ \E u \in Users, r \in RecipeIds, p \in Payloads, partial \in BOOLEAN :
          RecipeUpdate(u, r, p, partial)
    \/ \E u \in Users, r \in RecipeIds : RecipeDestroy(u, r)
    \/ \E u \in Users, r \in RecipeIds : RecipeRetrieve(u, r)
    \/ \E u \in Users, tq \in QueryParams : RecipeList(u, tq, <<>>)
    \/ \E u \in Users, t \in TagIds, n \in Names : TagUpdate(u, t, n)
    \/ \E u \in Users, t \in TagIds : TagDestroy(u, t)

Spec == Init /\ [][Next]_vars

(***************************************************************************)
(* The object-relational mapper used directly, as the test suites do to    *)
(* set up their fixtures: the API of recipe/views.py has no endpoint that  *)
(* creates an ingredient or attaches one to a recipe.                      *)
(***************************************************************************)
FixtureNames == {"a"}

\* create_recipe(user): Recipe.objects.create(user=user, **defaults)
OrmRecipeCreate(user) ==
    /\ nextRecipeId <= MaxRecipes
    /\ recipes' = Put(recipes, nextRecipeId,
                      NewRecipe([user |-> user, title |-> "t1",
                                 time_minutes |-> 5, price |-> 100]))
    /\ nextRecipeId' = nextRecipeId + 1
    /\ last' = Response("orm", user, nextRecipeId, 0, NoData, NoBody)
    /\ UNCHANGED <<tags, ingredients, nextTagId, nextIngredientId>>
    /\ UNCHANGED <<users, reqs>>

\* Tag.objects.create(user=user, name=name)
OrmTagCreate(user, name) ==
    /\ nextTagId <= MaxTags
    /\ tags' = Put(tags, nextTagId, [name |-> name, user |-> user])
    /\ nextTagId' = nextTagId + 1
    /\ last' = Response("orm", user, nextTagId, 0, NoData, NoBody)
    /\ UNCHANGED <<recipes, ingredients, nextRecipeId, nextIngredientId>>
    /\ UNCHANGED <<users, reqs>>

\* Ingredient.objects.create(user=user, name=name)
OrmIngredientCreate(user, name) ==
    /\ nextIngredientId <= MaxIngredients
    /\ ingredients' = Put(ingredients, nextIngredientId,
                          [name |-> name, user |-> user])
    /\ nextIngredientId' = nextIngredientId + 1
    /\ last' = Response("orm", user, nextIngredientId, 0, NoData, NoBody)
    /\ UNCHANGED <<recipes, tags, nextRecipeId, nextTagId>>
    /\ UNCHANGED <<users, reqs>>

\* recipe.tags.add(tag), with a tag of the recipe's user
OrmTagsAdd(rid, tid) ==
    /\ rid \in DOMAIN recipes
    /\ tid \in DOMAIN tags
    /\ tags[tid].user = recipes[rid].user
    /\ tid \notin recipes[rid].tags
    /\ recipes' = [recipes EXCEPT ![rid].tags = @ \cup {tid}]
    /\ last' = Response("orm", recipes[rid].user, rid, 0, NoData, NoBody)
    /\ UNCHANGED <<tags, ingredients, nextRecipeId, nextTagId,
                   nextIngredientId>>
    /\ UNCHANGED <<users, reqs>>

\* recipe.ingredients.add(ingredient), with an ingredient of the recipe's user
OrmIngredientsAdd(rid, iid) ==
    /\ rid \in DOMAIN recipes
    /\ iid \in DOMAIN ingredients
    /\ ingredients[iid].user = recipes[rid].user
    /\ iid \notin recipes[rid].ingredients
    /\ recipes' = [recipes EXCEPT ![rid].ingredients = @ \cup {iid}]
    /\ last' = Response("orm", recipes[rid].user, rid, 0, NoData, NoBody)
    /\ UNCHANGED <<tags, ingredients, nextRecipeId, nextTagId,
                   nextIngredientId>>
    /\ UNCHANGED <<users, reqs>>

\* The recipe endpoints that read or delete, over a store the fixtures built.
NextOrm ==
    \/ \E u \in Users : OrmRecipeCreate(u)
    \/ \E u \in Users, n \in FixtureNames : OrmTagCreate(u, n)
    \/ \E u \in Users, n \in FixtureNames : OrmIngredientCreate(u, n)
    \/ \E r \in RecipeIds, t \in TagIds : OrmTagsAdd(r, t)
    \/ \E r \in RecipeIds, i \in IngredientIds : OrmIngredientsAdd(r, i)
    \/ \E u \in Users, r \in RecipeIds : RecipeDestroy(u, r)
    \/ \E u \in Users, tq \in QueryParams, iq \in QueryParams :
          RecipeList(u, tq, iq)

SpecOrm == Init /\ [][NextOrm]_vars

\* The tag and ingredient endpoints, over a store the fixtures built with
\* at most MaxAttrRecipes recipes.
MaxAttrRecipes == 1

NextAttr ==
    \/ \E u \in Users : nextRecipeId <= MaxAttrRecipes /\ OrmRecipeCreate(u)
    \/ \E u \in Users, n \in FixtureNames : OrmTagCreate(u, n)
    \/ \E u \in Users, n \in FixtureNames : OrmIngredientCreate(u, n)
    \/ \E r \in RecipeIds, t \in TagIds : OrmTagsAdd(r, t)
    \/ \E r \in RecipeIds, i \in IngredientIds : OrmIngredientsAdd(r, i)
    \/ \E u \in Users, f \in AssignedOnly : TagList(u, f)
    \/ \E u \in Users, f \in AssignedOnly : IngredientList(u, f)
    \/ \E u \in Users, t \in TagIds, n \in Names : TagUpdate(u, t, n)
    \/ \E u \in Users, t \in TagIds : TagDestroy(u, t)
    \/ \E u \in Users, i \in IngredientIds, n \in Names :
          IngredientUpdate(u, i, n)
    \/ \E u \in Users, i \in IngredientIds : IngredientDestroy(u, i)

SpecAttr == Init /\ [][NextAttr]_vars

\* The recipe list with any query string, over a store the fixtures built
\* with MaxAttrRecipes recipes at most.
NextList ==
    \/ \E u \in Users : nextRecipeId <= MaxAttrRecipes /\ OrmRecipeCreate(u)
    \/ \E u \in Users, n \in FixtureNames : OrmTagCreate(u, n)
    \/ \E u \in Users, n \in FixtureNames : OrmIngredientCreate(u, n)
    \/ \E r \in RecipeIds, t \in TagIds : OrmTagsAdd(r, t)
    \/ \E r \in RecipeIds, i \in IngredientIds : OrmIngredientsAdd(r, i)
    \/ \E u \in Users, tq \in QueryStrings, iq \in QueryStrings :
          RecipeList(u, tq, iq)

SpecList == Init /\ [][NextList]_vars

\* The endpoints that delete, over a store the fixtures built.
NextDelete ==
    \/ \E u \in Users : OrmRecipeCreate(u)
    \/ \E u \in Users, n \in FixtureNames : OrmTagCreate(u, n)
    \/ \E u \in Users, n \in FixtureNames : OrmIngredientCreate(u, n)
    \/ \E r \in RecipeIds, t \in TagIds : OrmTagsAdd(r, t)
    \/ \E r \in RecipeIds, i \in IngredientIds : OrmIngredientsAdd(r, i)
    \/ \E u \in Users, r \in RecipeIds : RecipeDestroy(u, r)
    \/ \E u \in Users, t \in TagIds : TagDestroy(u, t)
    \/ \E u \in Users, i \in IngredientIds : IngredientDestroy(u, i)

SpecDelete == Init /\ [][NextDelete]_vars

(***************************************************************************)
(* The identity store: the manager of core/models.py called directly, as   *)
(* the tests and the user API do, and the user-creation endpoint.          *)
(***************************************************************************)
\* get_user_model().objects.create_user(email, password, **extra)
CreateUser(email, password, extra) ==
    /\ Len(users) < MaxUsers
    /\ LET r == create_user(users, email, password, extra)
       IN  /\ users' = r.tbl
           /\ last' = Response("create_user", 0, r.id, 0,
                               [email |-> email, password |-> password,
                                extra |-> extra],
                               IF r.error = "" THEN <<>> ELSE <<r.error>>)
    /\ UNCHANGED <<store, reqs>>

\* get_user_model().objects.create_superuser(email, password)
CreateSuperuser(email, password) ==
    /\ Len(users) < MaxUsers
    /\ LET r == create_superuser(users, email, password)
       IN  /\ users' = r.tbl
           /\ last' = Response("create_superuser", 0, r.id, 0,
                               [email |-> email, password |-> password,
                                extra |-> <<>>],
                               IF r.error = "" THEN <<>> ELSE <<r.error>>)
    /\ UNCHANGED <<store, reqs>>

\* The addresses the user API is sent: each is a well-formed address.
ApiEmails == {<<"a", "@", "a">>, <<"A", "@", "A">>}
MinPasswordLength == 5

\* POST /users/ with {email, password, name}: 400 for an email a user has
\* or a password that is too short, else the user is made by create_user.
UserCreate(email, password, name) ==
    /\ Len(users) < MaxUsers
    /\ IF \/ \E i \in DOMAIN users : users[i].email = email
          \/ Len(password) < MinPasswordLength
       THEN /\ last' = Response("user_create", 0, 0, HTTP_400_BAD_REQUEST,
                                [email |-> email, password |-> password,
                                 extra |-> [name |-> name]], NoBody)
            /\ UNCHANGED users
       ELSE LET r == create_user(users, email, password, [name |-> name])
            IN  /\ users' = r.tbl
                /\ last' = IF r.error = ""
                           THEN Response("user_create", 0, r.id,
                                    HTTP_201_CREATED,
                                    [email |-> email, password |-> password,
                                     extra |-> [name |-> name]], NoBody)
                           ELSE Response("user_create", 0, 0,
                                    HTTP_500_INTERNAL_SERVER_ERROR,
                                    [email |-> email, password |-> password,
                                     extra |-> [name |-> name]],
                                    <<r.error>>)
    /\ UNCHANGED <<store, reqs>>

InitUser ==
    /\ recipes = <<>>
    /\ tags = <<>>
    /\ ingredients = <<>>
    /\ nextRecipeId = 1
    /\ nextTagId = 1
    /\ nextIngredientId = 1
    /\ last = Response("none", 0, 0, 0, NoData, NoBody)
    /\ users = <<>>
    /\ reqs = [q \in Requests |-> IdleRequest]

NextUser ==
    \/ \E e \in Emails, p \in Passwords, x \in ExtraFields :
          CreateUser(e, p, x)
    \/ \E e \in Emails, p \in Passwords : CreateSuperuser(e, p)
    \/ \E e \in ApiEmails, p \in Passwords : UserCreate(e, p, "n")

SpecUser == InitUser /\ [][NextUser]_vars

(***************************************************************************)
(* Authentication.  Every viewset of recipe/views.py has                   *)
(* authentication_classes = [TokenAuthentication] and permission_classes = *)
(* [IsAuthenticated]: a request without a valid token has                  *)
(* request.user = AnonymousUser, and APIView.initial answers it 401 before *)
(* any handler runs.                                                       *)
(***************************************************************************)
Anonymous == 0
HTTP_401_UNAUTHORIZED == 401

\* permission_classes = [AllowAny]
AllowAny(user) == TRUE

\* permission_classes = [IsAuthenticated]
IsAuthenticated(user) == user # Anonymous

\* A request to a view that has these permission classes: the handler runs
\* for a caller the permission admits, any other caller is answered 401.
Protected(user, op, id, Handler) ==
    IF IsAuthenticated(user)
    THEN Handler
    ELSE /\ last' = Response(op, user, id, HTTP_401_UNAUTHORIZED,
                             NoData, NoBody)
         /\ UNCHANGED <<store, users, reqs>>

\* GET /users/me/: the profile of the caller.
UserMeRetrieve(user) ==
    /\ last' = IF user \in DOMAIN users
               THEN Response("me_get", user, user, HTTP_200_OK, NoData,
                             <<users[user].name, users[user].email>>)
               ELSE Response("me_get", user, user,
                             HTTP_500_INTERNAL_SERVER_ERROR, NoData, NoBody)
    /\ UNCHANGED <<store, users, reqs>>

\* PATCH /users/me/ with a name: the name of the caller is updated.
UserMeUpdate(user, name) ==
    /\ IF user \in DOMAIN users
       THEN /\ users' = [users EXCEPT ![user].name = name]
            /\ last' = Response("me_patch", user, user, HTTP_200_OK,
                                [name |-> name], NoBody)
       ELSE /\ last' = Response("me_patch", user, user,
                                HTTP_500_INTERNAL_SERVER_ERROR,
                                NoData, NoBody)
            /\ UNCHANGED users
    /\ UNCHANGED <<store, reqs>>

\* POST /users/token/ with {email, password}: 200 and a token for the
\* credentials of a user, 400 for any other.
TokenCreate(email, password) ==
    /\ last' = IF \E i \in DOMAIN users :
                     /\ users[i].email = email
                     /\ users[i].password = make_password(password)
               THEN Response("token", Anonymous, 0, HTTP_200_OK,
                             [email |-> email, password |-> password],
                             <<"token">>)
               ELSE Response("token", Anonymous, 0, HTTP_400_BAD_REQUEST,
                             [email |-> email, password |-> password],
                             NoBody)
    /\ UNCHANGED <<store, users, reqs>>

\* The one account that setUp creates, the callers of that test client (with
\* and without force_authenticate) and the payloads it sends.
AuthUsers == {1}
Callers == AuthUsers \cup {Anonymous}
AuthPayloads == {p \in Payloads : DOMAIN p = {"title", "user"}}

InitAuth ==
    /\ recipes = <<>>
    /\ tags = <<>>
    /\ ingredients = <<>>
    /\ nextRecipeId = 1
    /\ nextTagId = 1
    /\ nextIngredientId = 1
    /\ last = Response("none", 0, 0, 0, NoData, NoBody)
    /\ users = SubSeq(SetUpUsers, 1, 1)
    /\ reqs = [q \in Requests |-> IdleRequest]

NextAuth ==
    \/ \E u \in AuthUsers :
          nextRecipeId <= MaxAttrRecipes /\ OrmRecipeCreate(u)
    \/ \E u \in AuthUsers, n \in FixtureNames : OrmTagCreate(u, n)
    \/ \E u \in AuthUsers, n \in FixtureNames : OrmIngredientCreate(u, n)
    \/ \E r \in RecipeIds, t \in TagIds : OrmTagsAdd(r, t)
    \/ \E r \in RecipeIds, i \in IngredientIds : OrmIngredientsAdd(r, i)
    \/ \E c \in Callers :
          Protected(c, "list", 0, RecipeList(c, <<>>, <<>>))
    \/ \E c \in Callers, r \in RecipeIds :
          Protected(c, "retrieve", r, RecipeRetrieve(c, r))
    \/ \E c \in Callers, p \in AuthPayloads :
          Protected(c, "create", 0, RecipeCreate(c, p))
    \/ \E c \in Callers, r \in RecipeIds, p \in AuthPayloads :
          Protected(c, "patch", r, RecipeUpdate(c, r, p, TRUE))
    \/ \E c \in Callers, r \in RecipeIds, p \in AuthPayloads :
          Protected(c, "put", r, RecipeUpdate(c, r, p, FALSE))
    \/ \E c \in Callers, r \in RecipeIds :
          Protected(c, "delete", r, RecipeDestroy(c, r))
    \/ \E c \in Callers, f \in AssignedOnly :
          Protected(c, "tag_list", 0, TagList(c, f))
    \/ \E c \in Callers, t \in TagIds, n \in FixtureNames :
          Protected(c, "tag_patch", t, TagUpdate(c, t, n))
    \/ \E c \in Callers, t \in TagIds :
          Protected(c, "tag_delete", t, TagDestroy(c, t))
    \/ \E c \in Callers, f \in AssignedOnly :
          Protected(c, "ingredient_list", 0, IngredientList(c, f))
    \/ \E c \in Callers, i \in IngredientIds, n \in FixtureNames :
          Protected(c, "ingredient_patch", i, IngredientUpdate(c, i, n))
    \/ \E c \in Callers, i \in IngredientIds :
          Protected(c, "ingredient_delete", i, IngredientDestroy(c, i))
    \/ \E c \in Callers : Protected(c, "me_get", c, UserMeRetrieve(c))
    \/ \E c \in Callers, n \in {"n"} :
          Protected(c, "me_patch", c, UserMeUpdate(c, n))
    \/ \E e \in ApiEmails, p \in Passwords : UserCreate(e, p, "n")
    \/ \E e \in ApiEmails, p \in Passwords : TokenCreate(e, p)

SpecAuth == InitAuth /\ [][NextAuth]_vars

(***************************************************************************)
(* Recipe updates in flight at the same time.  RecipeSerializer.update     *)
(* opens no transaction and takes no lock, so every statement of it is a   *)
(* step of its own: the statements of two requests interleave.             *)
(* reqs[q] is the position of request q in update, with the local          *)
(* variables of the view and the serializer.                               *)
(***************************************************************************)
\* An update that leaves instance.tags.clear() out.
M2MClear_left_out(row) == row

\* instance.tags.clear(): the recipe's rows of the recipe-tag table go.
M2MClear(row) == [row EXCEPT !.tags = {}]

\* The payloads the requests in flight carry: a tags key and nothing else.
ConcurrentPayloads == {p \in Payloads : DOMAIN p = {"tags"}}

\* The view up to serializer.update: get_object, is_valid and the pop of the
\* tags key.
ReqStart(q, user, rid, payload, partial) ==
    /\ reqs[q].pc = "idle"
    /\ IF ~get_object_found(user, rid)
       THEN /\ last' = Response(IF partial THEN "patch" ELSE "put", user,
                                rid, HTTP_404_NOT_FOUND, NoData, NoBody)
            /\ UNCHANGED reqs
       ELSE IF ~is_valid(payload, partial)
       THEN /\ last' = Response(IF partial THEN "patch" ELSE "put", user,
                                rid, HTTP_400_BAD_REQUEST, NoData, NoBody)
            /\ UNCHANGED reqs
       ELSE /\ reqs' = [reqs EXCEPT ![q] =
                  [pc |-> IF "tags" \in DOMAIN validated_data(payload)
                          THEN "clear" ELSE "save",
                   op |-> IF partial THEN "patch" ELSE "put",
                   user |-> user, rid |-> rid, payload |-> payload,
                   data |-> Restrict(validated_data(payload),
                               DOMAIN validated_data(payload) \ {"tags"}),
                   entries |-> IF "tags" \in DOMAIN validated_data(payload)
                               THEN validated_data(payload).tags ELSE <<>>,
                   instance |-> recipes[rid], obj |-> 0, status |-> 0,
                   last_clear |-> FALSE]]
            /\ UNCHANGED last
    /\ UNCHANGED <<store, users>>

\* instance.tags.clear()
ReqClear(q) ==
    /\ reqs[q].pc = "clear"
    /\ recipes' = [recipes EXCEPT ![reqs[q].rid] = M2MClear(@)]
    /\ reqs' = [o \in Requests |->
                  IF o = q
                  THEN [reqs[q] EXCEPT
                          !.pc = IF reqs[q].entries = <<>>
                                 THEN "save" ELSE "get",
                          !.last_clear = TRUE]
                  ELSE IF reqs[o].pc = "idle"
                  THEN reqs[o]
                  ELSE [reqs[o] EXCEPT !.last_clear = FALSE]]
    /\ UNCHANGED <<tags, ingredients, nextRecipeId, nextTagId,
                   nextIngredientId, last, users>>

\* The get of Tag.objects.get_or_create(user=user, **tag): the row that
\* matches, none, or MultipleObjectsReturned, which ends the request.
ReqGet(q) ==
    /\ reqs[q].pc = "get"
    /\ LET match == {t \in DOMAIN tags :
                       /\ tags[t].user = reqs[q].user
                       /\ tags[t].name = Head(reqs[q].entries).name}
       IN  IF Cardinality(match) > 1
           THEN /\ reqs' = [reqs EXCEPT ![q].pc = "done",
                                        ![q].status =
                                            HTTP_500_INTERNAL_SERVER_ERROR]
                /\ last' = Response(reqs[q].op, reqs[q].user, reqs[q].rid,
                                    HTTP_500_INTERNAL_SERVER_ERROR,
                                    reqs[q].payload, NoBody)
           ELSE IF match = {}
           THEN /\ reqs' = [reqs EXCEPT ![q].pc = "create"]
                /\ UNCHANGED last
           ELSE /\ reqs' = [reqs EXCEPT ![q].pc = "add",
                                        ![q].obj = CHOOSE t \in match : TRUE]
                /\ UNCHANGED last
    /\ UNCHANGED <<store, users>>

\* The create of Tag.objects.get_or_create, after a get that found no row.
ReqCreate(q) ==
    /\ reqs[q].pc = "create"
    /\ nextTagId <= MaxTags
    /\ tags' = Put(tags, nextTagId, [name |-> Head(reqs[q].entries).name,
                                     user |-> reqs[q].user])
    /\ nextTagId' = nextTagId + 1
    /\ reqs' = [reqs EXCEPT ![q].pc = "add", ![q].obj = nextTagId]
    /\ UNCHANGED <<recipes, ingredients, nextRecipeId, nextIngredientId,
                   last, users>>

\* recipe.tags.add(tag_existing), and the loop goes to its next entry.
ReqAdd(q) ==
    /\ reqs[q].pc = "add"
    /\ recipes' = [recipes EXCEPT ![reqs[q].rid].tags = @ \cup {reqs[q].obj}]
    /\ reqs' = [reqs EXCEPT ![q].entries = Tail(@),
                            ![q].pc = IF Tail(reqs[q].entries) = <<>>
                                      THEN "save" ELSE "get"]
    /\ UNCHANGED <<tags, ingredients, nextRecipeId, nextTagId,
                   nextIngredientId, last, users>>

\* The setattr loop and instance.save(): the columns of the recipe row are
\* written from the instance the view read; the recipe-tag table is not.
ReqSave(q) ==
    /\ reqs[q].pc = "save"
    /\ recipes' = [recipes EXCEPT ![reqs[q].rid] =
                      [SetAttrs(reqs[q].instance, reqs[q].data)
                          EXCEPT !.tags = recipes[reqs[q].rid].tags,
                                 !.ingredients =
                                     recipes[reqs[q].rid].ingredients]]
    /\ reqs' = [reqs EXCEPT ![q].pc = "done", ![q].status = HTTP_200_OK]
    /\ last' = Response(reqs[q].op, reqs[q].user, reqs[q].rid, HTTP_200_OK,
                        reqs[q].payload, NoBody)
    /\ UNCHANGED <<tags, ingredients, nextRecipeId, nextTagId,
                   nextIngredientId, users>>

\* The store after user 1 created a recipe with the tag a.
InitConcurrent ==
    /\ recipes = Put(<<>>, 1,
                     [NewRecipe([user |-> 1, title |-> "t1",
                                 time_minutes |-> 5, price |-> 100])
                         EXCEPT !.tags = {1}])
    /\ tags = Put(<<>>, 1, [name |-> "a", user |-> 1])
    /\ ingredients = <<>>
    /\ nextRecipeId = 2
    /\ nextTagId = 2
    /\ nextIngredientId = 1
    /\ last = Response("none", 0, 0, 0, NoData, NoBody)
    /\ users = SetUpUsers
    /\ reqs = [q \in Requests |-> IdleRequest]

NextConcurrent ==
    \/ \E q \in Requests, u \in Users, r \in RecipeIds,
          p \in ConcurrentPayloads, partial \in BOOLEAN :
          ReqStart(q, u, r, p, partial)
    \/ \E q \in Requests : ReqClear(q)
    \/ \E q \in Requests : ReqGet(q)
    \/ \E q \in Requests : ReqCreate(q)
    \/ \E q \in Requests : ReqAdd(q)
    \/ \E q \in Requests : ReqSave(q)

SpecConcurrent == InitConcurrent /\ [][NextConcurrent]_vars

(***************************************************************************)
(* Properties                                                              *)
(***************************************************************************)
OwnRecipes(user) == {r \in DOMAIN recipes : recipes[r].user = user}

\* The ids a tags or ingredients query parameter names.
FilterIds(q) == Range(_params_to_ids(q).ids)

\* C1: the recipe list returned to a caller holds only recipes the caller
\* owns, whatever ids the tags and ingredients filters name (ids of another
\* user's tags included), and holds every recipe of the caller when no filter
\* is given.
C1_ListOwnerScoped ==
    (last.op = "list" /\ last.status = 200) =>
       /\ Range(last.body) \subseteq OwnRecipes(last.user)
       /\ (last.data.tags = <<>> /\ last.data.ingredients = <<>>) =>
             Range(last.body) = OwnRecipes(last.user)

\* A caller who owns a recipe asked for the list with a tags filter that
\* names a tag of another user, which is attached to that user's recipe.
C1_Witness ==
    /\ last.op = "list"
    /\ last.status = 200
    /\ OwnRecipes(last.user) # {}
    /\ \E r \in DOMAIN recipes, t \in FilterIds(last.data.tags) :
          /\ recipes[r].user # last.user
          /\ t \in recipes[r].tags
          /\ tags[t].user # last.user

\* C2: a get, patch, put or delete of a recipe id that the caller does not
\* own answers 404 with nothing else in the response, the same response as
\* for an id that does not exist, and changes nothing in the store.
C2_OtherUsersRecipeNotFound ==
    [][(/\ last'.op \in {"retrieve", "patch", "put", "delete"}
        /\ last'.id \notin OwnRecipes(last'.user))
       => /\ last' = [op |-> last'.op, user |-> last'.user, id |-> last'.id,
                      status |-> 404, data |-> <<>>, body |-> <<>>]
          /\ store' = store]_vars

\* A delete of an existing recipe that has a tag, by a user who does not
\* own it, was answered 404.
C2_Witness ==
    /\ last.op = "delete"
    /\ last.status = 404
    /\ last.id \in DOMAIN recipes
    /\ recipes[last.id].user # last.user
    /\ recipes[last.id].tags # {}

\* C3: every tag and every ingredient associated with a recipe is an
\* existing row owned by the user who owns the recipe.
C3_AttachedAttrsOwnedByRecipeOwner ==
    \A r \in DOMAIN recipes :
       /\ \A t \in recipes[r].tags :
             t \in DOMAIN tags /\ tags[t].user = recipes[r].user
       /\ \A i \in recipes[r].ingredients :
             i \in DOMAIN ingredients
             /\ ingredients[i].user = recipes[r].user

\* A recipe was given a tag by a create or an update while another user
\* owns a tag of the same name.
C3_Witness ==
    /\ last.op \in {"create", "patch", "put"}
    /\ last.id \in DOMAIN recipes
    /\ \E t \in recipes[last.id].tags, o \in DOMAIN tags :
          /\ tags[o].user # recipes[last.id].user
          /\ tags[o].name = tags[t].name

\* C4: a recipe's owner is the caller who created it and never changes: a
\* create stores the caller as owner whatever the payload says, and no step
\* (a patch or put with a user key included) changes the owner of a recipe.
C4_OwnerIsCreatorForLife ==
    [][/\ \A r \in DOMAIN recipes' \ DOMAIN recipes :
             /\ last'.op = "create"
             /\ last'.id = r
             /\ recipes'[r].user = last'.user
       /\ \A r \in DOMAIN recipes \cap DOMAIN recipes' :
             recipes'[r].user = recipes[r].user]_vars

\* A patch or put whose payload has a user key that names another user
\* was answered 200.
C4_Witness ==
    /\ last.op \in {"patch", "put"}
    /\ last.status = 200
    /\ "user" \in DOMAIN last.data
    /\ last.data.user # last.user
    /\ last.id \in DOMAIN recipes

PayloadTagNames(data) == {data.tags[i].name : i \in DOMAIN data.tags}

\* C5: a recipe create with a tags payload creates exactly one recipe and
\* associates it with exactly one tag per payload name, all owned by the
\* caller: a tag of the caller with that name that exists is reused and no
\* Tag row is created for it, a name the caller has no tag for gets one new
\* Tag row owned by the caller, and no existing row is changed.
C5_CreateReconcilesTags ==
    [][(/\ last'.op = "create"
        /\ "tags" \in DOMAIN last'.data)
       => LET rid == last'.id
              u == last'.user
              names == PayloadTagNames(last'.data)
              created == DOMAIN tags' \ DOMAIN tags
          IN  /\ rid \notin DOMAIN recipes
              /\ DOMAIN recipes' = DOMAIN recipes \cup {rid}
              /\ \A r \in DOMAIN recipes : recipes'[r] = recipes[r]
              /\ \A t \in DOMAIN tags :
                    t \in DOMAIN tags' /\ tags'[t] = tags[t]
              /\ \A t \in recipes'[rid].tags :
                    /\ t \in DOMAIN tags'
                    /\ tags'[t].user = u
                    /\ tags'[t].name \in names
              /\ \A n \in names :
                    Cardinality({t \in recipes'[rid].tags :
                                    tags'[t].name = n}) = 1
              /\ \A t \in created :
                    tags'[t].user = u /\ tags'[t].name \in names
              /\ \A n \in names :
                    Cardinality({t \in created : tags'[t].name = n}) =
                       IF \E t \in DOMAIN tags :
                             tags[t].user = u /\ tags[t].name = n
                       THEN 0 ELSE 1]_vars

\* C6: a recipe update whose payload has the tags key leaves the recipe with
\* exactly the tags the payload names, one per name and owned by the caller
\* (none with an empty list), and every Tag row that existed still exists
\* unchanged.
C6_UpdateReplacesTags ==
    [][(/\ last'.op \in {"patch", "put"}
        /\ "tags" \in DOMAIN last'.data)
       => LET rid == last'.id
              names == PayloadTagNames(last'.data)
          IN  /\ rid \in DOMAIN recipes'
              /\ \A t \in recipes'[rid].tags :
                    /\ t \in DOMAIN tags'
                    /\ tags'[t].user = last'.user
                    /\ tags'[t].name \in names
              /\ \A n \in names :
                    Cardinality({t \in recipes'[rid].tags :
                                    tags'[t].name = n}) = 1
              /\ \A t \in DOMAIN tags :
                    t \in DOMAIN tags' /\ tags'[t] = tags[t]]_vars

\* C5, for the creates that are answered 201: the statement of C5 holds
\* of every create that did not end in an unhandled exception.
C5_AnsweredCreateReconcilesTags ==
    [][(/\ last'.op = "create"
        /\ last'.status = 201
        /\ "tags" \in DOMAIN last'.data)
       => LET rid == last'.id
              u == last'.user
              names == PayloadTagNames(last'.data)
              created == DOMAIN tags' \ DOMAIN tags
          IN  /\ rid \notin DOMAIN recipes
              /\ DOMAIN recipes' = DOMAIN recipes \cup {rid}
              /\ \A t \in recipes'[rid].tags :
                    /\ t \in DOMAIN tags'
                    /\ tags'[t].user = u
                    /\ tags'[t].name \in names
              /\ \A n \in names :
                    Cardinality({t \in recipes'[rid].tags :
                                    tags'[t].name = n}) = 1
              /\ \A n \in names :
                    Cardinality({t \in created : tags'[t].name = n}) =
                       IF \E t \in DOMAIN tags :
                             tags[t].user = u /\ tags[t].name = n
                       THEN 0 ELSE 1]_vars

\* C6, for the updates that are answered 200.
C6_AnsweredUpdateReplacesTags ==
    [][(/\ last'.op \in {"patch", "put"}
        /\ last'.status = 200
        /\ "tags" \in DOMAIN last'.data)
       => LET rid == last'.id
              names == PayloadTagNames(last'.data)
          IN  /\ \A t \in recipes'[rid].tags :
                    /\ t \in DOMAIN tags'
                    /\ tags'[t].user = last'.user
                    /\ tags'[t].name \in names
              /\ \A n \in names :
                    Cardinality({t \in recipes'[rid].tags :
                                    tags'[t].name = n}) = 1
              /\ \A t \in DOMAIN tags :
                    t \in DOMAIN tags' /\ tags'[t] = tags[t]]_vars

RowFields == {"user", "title", "time_minutes", "price", "link",
              "description", "tags", "ingredients"}
PatchableFields == {"title", "time_minutes", "price", "link",
                    "description", "tags"}

\* C7: a patch changes, in the recipe it addresses, only fields that are in
\* its payload: every other field of the row, the tag associations when the
\* tags key is absent included, keeps its value; no other recipe changes,
\* and without the tags key no Tag row changes.
C7_PatchTouchesOnlyPayloadFields ==
    [][last'.op = "patch"
       => /\ DOMAIN recipes' = DOMAIN recipes
          /\ \A r \in DOMAIN recipes, f \in RowFields :
                (r # last'.id \/ f \notin DOMAIN last'.data
                              \/ f \notin PatchableFields)
                   => recipes'[r][f] = recipes[r][f]
          /\ "tags" \notin DOMAIN last'.data => tags' = tags
          /\ ingredients' = ingredients]_vars

\* A patch with a title and no tags key was answered 200 on a recipe that
\* has tags.
C7_Witness ==
    /\ last.op = "patch"
    /\ last.status = 200
    /\ "title" \in DOMAIN last.data
    /\ "tags" \notin DOMAIN last.data
    /\ recipes[last.id].title = last.data.title
    /\ recipes[last.id].tags # {}

\* C8: the recipe list holds exactly the caller's recipes that have a tag
\* whose id is in the tags filter, when one is given, and an ingredient
\* whose id is in the ingredients filter, when one is given, the highest
\* recipe id first.
C8_ListFilters ==
    (last.op = "list" /\ last.status = 200) =>
       LET tq == last.data.tags
           iq == last.data.ingredients
       IN  /\ Range(last.body) =
                 {r \in OwnRecipes(last.user) :
                    /\ tq # <<>> => recipes[r].tags \cap FilterIds(tq) # {}
                    /\ iq # <<>> =>
                          recipes[r].ingredients \cap FilterIds(iq) # {}}
           /\ \A i, j \in DOMAIN last.body :
                 i < j => last.body[i] >= last.body[j]

\* A list with both filters given returned one of the caller's two recipes
\* and not the other.
C8_Witness ==
    /\ last.op = "list"
    /\ last.status = 200
    /\ last.data.tags # <<>>
    /\ last.data.ingredients # <<>>
    /\ Len(last.body) = 1
    /\ Cardinality(OwnRecipes(last.user)) = 2
    /\ \A r \in OwnRecipes(last.user) : recipes[r].tags # {}

\* A list with one filter returned two recipes.
C8_WitnessOrder ==
    /\ last.op = "list"
    /\ last.status = 200
    /\ last.data.tags # <<>>
    /\ Len(last.body) = 2

\* C9: the recipe list holds each recipe at most once.
C9_ListHasNoDuplicates ==
    (last.op = "list" /\ last.status = 200) =>
       \A i, j \in DOMAIN last.body :
          i # j => last.body[i] # last.body[j]

\* A list whose two filters each name two ids returned a recipe that has
\* both tags and both ingredients.
C9_Witness ==
    /\ last.op = "list"
    /\ last.status = 200
    /\ \E r \in Range(last.body) :
          /\ Cardinality(recipes[r].tags \cap FilterIds(last.data.tags)) = 2
          /\ Cardinality(recipes[r].ingredients
                            \cap FilterIds(last.data.ingredients)) = 2

\* C10: a delete answered 204 removes the recipe row, its associations with
\* it, and nothing else: every other recipe keeps its fields and
\* associations, and the Tag and Ingredient tables are unchanged.
C10_DeleteRemovesOnlyTheRecipe ==
    [][(last'.op = "delete" /\ last'.status = 204)
       => /\ last'.id \in DOMAIN recipes
          /\ recipes[last'.id].user = last'.user
          /\ DOMAIN recipes' = DOMAIN recipes \ {last'.id}
          /\ \A r \in DOMAIN recipes' : recipes'[r] = recipes[r]
          /\ tags' = tags
          /\ ingredients' = ingredients]_vars

\* A recipe was deleted while its owner has a tag and an ingredient that no
\* recipe refers to, and another recipe with a tag and an ingredient remains.
C10_Witness ==
    /\ last.op = "delete"
    /\ last.status = 204
    /\ \E t \in DOMAIN tags :
          /\ tags[t].user = last.user
          /\ \A r \in DOMAIN recipes : t \notin recipes[r].tags
    /\ \E i \in DOMAIN ingredients :
          /\ ingredients[i].user = last.user
          /\ \A r \in DOMAIN recipes : i \notin recipes[r].ingredients
    /\ \E r \in DOMAIN recipes :
          recipes[r].tags # {} /\ recipes[r].ingredients # {}

OwnTags(user) == {t \in DOMAIN tags : tags[t].user = user}
OwnIngredients(user) ==
    {i \in DOMAIN ingredients : ingredients[i].user = user}

\* C11: a tag list or ingredient list asked with assigned_only set holds
\* exactly the caller's rows that at least one recipe refers to, each of
\* them once.
C11_AssignedOnlyLists ==
    /\ (last.op = "tag_list" /\ last.data.assigned_only = 1) =>
          /\ Range(last.body) =
                {t \in OwnTags(last.user) :
                    \E r \in DOMAIN recipes : t \in recipes[r].tags}
          /\ \A i, j \in DOMAIN last.body :
                i # j => last.body[i] # last.body[j]
    /\ (last.op = "ingredient_list" /\ last.data.assigned_only = 1) =>
          /\ Range(last.body) =
                {n \in OwnIngredients(last.user) :
                    \E r \in DOMAIN recipes : n \in recipes[r].ingredients}
          /\ \A i, j \in DOMAIN last.body :
                i # j => last.body[i] # last.body[j]

\* C12: a tag list or ingredient list asked without the flag holds all the
\* rows the caller owns and no row of another user, each once, the highest
\* name first.
C12_AttrListOwnRowsByNameDesc ==
    /\ (last.op = "tag_list" /\ last.data.assigned_only = 0) =>
          /\ Range(last.body) = OwnTags(last.user)
          /\ Len(last.body) = Cardinality(OwnTags(last.user))
          /\ \A i, j \in DOMAIN last.body :
                i < j => NameRank(tags[last.body[i]].name)
                            >= NameRank(tags[last.body[j]].name)
    /\ (last.op = "ingredient_list" /\ last.data.assigned_only = 0) =>
          /\ Range(last.body) = OwnIngredients(last.user)
          /\ Len(last.body) = Cardinality(OwnIngredients(last.user))
          /\ \A i, j \in DOMAIN last.body :
                i < j => NameRank(ingredients[last.body[i]].name)
                            >= NameRank(ingredients[last.body[j]].name)

\* A caller who owns two tags of different names, the one created first
\* with the lower name, was given the list of both.
C12_Witness ==
    /\ last.op = "tag_list"
    /\ last.data.assigned_only = 0
    /\ Len(last.body) = 2
    /\ NameRank(tags[1].name) < NameRank(tags[2].name)

\* A caller was given the list of the one ingredient they own while another
\* user owns an ingredient of a higher name.
C12_WitnessOtherUser ==
    /\ last.op = "ingredient_list"
    /\ last.data.assigned_only = 0
    /\ Len(last.body) = 1
    /\ \E i \in DOMAIN ingredients :
          /\ ingredients[i].user # last.user
          /\ NameRank(ingredients[i].name)
                > NameRank(ingredients[last.body[1]].name)

\* C13: a patch or delete of a tag or ingredient that the caller does not own
\* answers 404 with nothing else in the response and changes nothing: the
\* row keeps its name and owner and the recipes keep their associations.
C13_OtherUsersAttrNotFound ==
    [][/\ (/\ last'.op \in {"tag_patch", "tag_delete"}
           /\ last'.id \notin OwnTags(last'.user))
          => /\ last' = [op |-> last'.op, user |-> last'.user,
                         id |-> last'.id, status |-> 404,
                         data |-> <<>>, body |-> <<>>]
             /\ store' = store
       /\ (/\ last'.op \in {"ingredient_patch", "ingredient_delete"}
           /\ last'.id \notin OwnIngredients(last'.user))
          => /\ last' = [op |-> last'.op, user |-> last'.user,
                         id |-> last'.id, status |-> 404,
                         data |-> <<>>, body |-> <<>>]
             /\ store' = store]_vars

\* A delete of an ingredient that another user owns, and that a recipe of
\* that user refers to, was answered 404.
C13_Witness ==
    /\ last.op = "ingredient_delete"
    /\ last.status = 404
    /\ last.id \in DOMAIN ingredients
    /\ ingredients[last.id].user # last.user
    /\ \E r \in DOMAIN recipes : last.id \in recipes[r].ingredients

PayloadIngredientNames(data) ==
    {data.ingredients[i].name : i \in DOMAIN data.ingredients}

\* C14: a recipe create with an ingredients payload associates the created
\* recipe with exactly one ingredient per payload name, owned by the caller:
\* an ingredient of the caller with that name that exists is reused and no
\* row is created for it, and a name the caller has no ingredient for gets
\* one new row owned by the caller.
C14_CreateReconcilesIngredients ==
    [][(/\ last'.op = "create"
        /\ "ingredients" \in DOMAIN last'.data)
       => LET rid == last'.id
              u == last'.user
              names == PayloadIngredientNames(last'.data)
              created == DOMAIN ingredients' \ DOMAIN ingredients
          IN  /\ rid \in DOMAIN recipes'
              /\ \A i \in recipes'[rid].ingredients :
                    /\ i \in DOMAIN ingredients'
                    /\ ingredients'[i].user = u
                    /\ ingredients'[i].name \in names
              /\ \A n \in names :
                    Cardinality({i \in recipes'[rid].ingredients :
                                    ingredients'[i].name = n}) = 1
              /\ \A n \in names :
                    Cardinality({i \in created :
                                    ingredients'[i].name = n}) =
                       IF \E i \in DOMAIN ingredients :
                             /\ ingredients[i].user = u
                             /\ ingredients[i].name = n
                       THEN 0 ELSE 1]_vars

\* C15 as stated: create_user with an empty email fails with ValidationError,
\* whatever the password and the extra fields, and the User table is
\* unchanged.
C15_EmptyEmailValidationError ==
    [][(last'.op = "create_user" /\ last'.data.email = <<>>)
       => /\ last'.body = <<"ValidationError">>
          /\ users' = users]_vars

\* C15: create_user with an empty email raises ValueError, whatever the
\* password and the extra fields, and the User table is unchanged.
C15_EmptyEmailValueError ==
    [][(last'.op = "create_user" /\ last'.data.email = <<>>)
       => /\ last'.body = <<"ValueError">>
          /\ users' = users]_vars

\* create_user was called with an empty email, a password and a name while
\* the User table has a row.
C15_Witness ==
    /\ last.op = "create_user"
    /\ last.data.email = <<>>
    /\ last.data.password = "testpass123"
    /\ "name" \in DOMAIN last.data.extra
    /\ last.body = <<"ValueError">>
    /\ Len(users) = 1

\* The endpoints that have no permission class: user creation and token
\* issuance.
PublicOps == {"user_create", "token"}

\* C16: a request without authentication to any endpoint other than user
\* creation and token issuance is answered 401 and changes nothing in the
\* tables; user creation and token issuance are never answered 401.
C16_UnauthenticatedIs401 ==
    [][last'.user = Anonymous
       => IF last'.op \in PublicOps
          THEN last'.status # 401
          ELSE /\ last'.status = 401
               /\ store' = store
               /\ users' = users]_vars

\* A delete of an existing recipe that has a tag and an ingredient, sent
\* without authentication, was answered 401.
C16_Witness ==
    /\ last.user = Anonymous
    /\ last.op = "delete"
    /\ last.status = 401
    /\ last.id \in DOMAIN recipes
    /\ recipes[last.id].tags # {}
    /\ recipes[last.id].ingredients # {}

\* A user was created without authentication.
C16_WitnessPublic ==
    /\ last.user = Anonymous
    /\ last.op = "user_create"
    /\ last.status = 201
    /\ Len(users) = 2

\* C17: no two users have the same email, and a user creation through the
\* API with an email that a user already has is answered 400 and leaves the
\* User table unchanged.
C17_EmailsUnique ==
    [][/\ \A i, j \in DOMAIN users' :
             i # j => users'[i].email # users'[j].email
       /\ (/\ last'.op = "user_create"
           /\ \E i \in DOMAIN users : users[i].email = last'.data.email)
          => /\ last'.status = 400
             /\ users' = users]_vars

\* A user creation with a password that is long enough and the email of an
\* existing user was answered 400.
C17_Witness ==
    /\ last.op = "user_create"
    /\ last.status = 400
    /\ Len(last.data.password) >= MinPasswordLength
    /\ \E i \in DOMAIN users : users[i].email = last.data.email

\* create_user was called with an address that normalises to the email of an
\* existing user and raised IntegrityError.
C17_WitnessManager ==
    /\ last.op = "create_user"
    /\ last.body = <<"IntegrityError">>
    /\ \E i \in DOMAIN users : users[i].email # last.data.email

\* The parts of an address before and after its last @; an address without
\* an @ has no domain part.
LocalPart(s) ==
    IF AtSigns(s) = {} THEN s ELSE SubSeq(s, 1, SetMax(AtSigns(s)) - 1)
DomainPart(s) ==
    IF AtSigns(s) = {}
    THEN <<>>
    ELSE SubSeq(s, SetMax(AtSigns(s)) + 1, Len(s))

\* C18 as stated: for every email passed to create_user, the stored email
\* has the domain part lowercased and the local part of the input,
\* character for character.
C18_StoredEmailNormalized ==
    [][(/\ last'.op \in {"create_user", "create_superuser"}
        /\ last'.body = <<>>)
       => LET given == last'.data.email
              held == users'[last'.id].email
          IN  /\ DomainPart(held) = Lower(DomainPart(given))
              /\ LocalPart(held) = LocalPart(given)]_vars

\* C18: for every email passed to create_user that has no whitespace at its
\* ends, the stored email has the domain part lowercased and the local part
\* of the input, character for character.
C18_StrippedEmailNormalized ==
    [][(/\ last'.op \in {"create_user", "create_superuser"}
        /\ last'.body = <<>>
        /\ strip(last'.data.email) = last'.data.email)
       => LET given == last'.data.email
              held == users'[last'.id].email
          IN  /\ DomainPart(held) = Lower(DomainPart(given))
              /\ LocalPart(held) = LocalPart(given)]_vars

\* A user was created from an address with an uppercase local part and an
\* uppercase domain.
C18_Witness ==
    /\ last.op = "create_user"
    /\ last.body = <<>>
    /\ last.data.email = <<"A", "@", "A">>
    /\ users[last.id].email = <<"A", "@", "a">>

\* The names that the tags payload has more than once.
RepeatedTagNames(data) ==
    {data.tags[i].name : i \in
        {k \in DOMAIN data.tags :
            \E j \in DOMAIN data.tags :
               j # k /\ data.tags[j].name = data.tags[k].name}}

\* C19: a recipe create or update whose tags payload has a name more than
\* once creates at most one Tag row of the caller with that name and leaves
\* the recipe with exactly one association to a tag of that name.
C19_RepeatedNameReconciledOnce ==
    [][(/\ last'.op \in {"create", "patch", "put"}
        /\ "tags" \in DOMAIN last'.data)
       => \A n \in RepeatedTagNames(last'.data) :
             /\ Cardinality({t \in DOMAIN tags' \ DOMAIN tags :
                               /\ tags'[t].user = last'.user
                               /\ tags'[t].name = n}) <= 1
             /\ last'.id \in DOMAIN recipes'
             /\ Cardinality({t \in recipes'[last'.id].tags :
                               /\ t \in DOMAIN tags'
                               /\ tags'[t].name = n}) = 1]_vars

\* C19, for the creates and updates that are answered 201 or 200.
C19_AnsweredRepeatedNameReconciledOnce ==
    [][(/\ last'.op \in {"create", "patch", "put"}
        /\ last'.status \in {200, 201}
        /\ "tags" \in DOMAIN last'.data)
       => \A n \in RepeatedTagNames(last'.data) :
             /\ Cardinality({t \in DOMAIN tags' \ DOMAIN tags :
                               /\ tags'[t].user = last'.user
                               /\ tags'[t].name = n}) <= 1
             /\ last'.id \in DOMAIN recipes'
             /\ Cardinality({t \in recipes'[last'.id].tags :
                               /\ t \in DOMAIN tags'
                               /\ tags'[t].name = n}) = 1]_vars

\* Both requests in flight have ended, and they were updates of the same
\* recipe by the same user.
BothDone ==
    /\ \A q \in Requests : reqs[q].pc = "done"
    /\ reqs[1].rid = reqs[2].rid
    /\ reqs[1].user = reqs[2].user

\* The names of the tags a recipe is associated with.
RecipeTagNames(rid) == {tags[t].name : t \in recipes[rid].tags}

\* C20: the reconciliation is last-write-wins on the clearing, not atomic:
\* when two updates of one recipe by its owner have ended, the recipe has
\* tags of names of the two payloads only, and all the names of the payload
\* of the request that cleared last when that request was answered 200; the
\* tags of the other payload that were added after that clear stay, so the
\* tag set need not be the tag set of either payload (C20_Witness).
C20_LastClearWins ==
    BothDone =>
       /\ RecipeTagNames(reqs[1].rid) \subseteq
             PayloadTagNames(reqs[1].payload)
                \cup PayloadTagNames(reqs[2].payload)
       /\ \A q \in Requests :
             (reqs[q].last_clear /\ reqs[q].status = 200) =>
                PayloadTagNames(reqs[q].payload)
                   \subseteq RecipeTagNames(reqs[q].rid)

\* Two updates of one recipe by its owner, with different tags payloads,
\* were both answered 200 and the recipe's tags are those of neither payload.
C20_Witness ==
    /\ BothDone
    /\ \A q \in Requests : reqs[q].status = 200
    /\ PayloadTagNames(reqs[1].payload) # PayloadTagNames(reqs[2].payload)
    /\ \A q \in Requests :
          RecipeTagNames(reqs[q].rid) # PayloadTagNames(reqs[q].payload)

\* C21: no user owns two Tag rows of the same name, so a get_or_create by
\* (user, name) matches one row at most.
C21_NoDuplicateTagNames ==
    \A t1, t2 \in DOMAIN tags :
       (tags[t1].user = tags[t2].user /\ tags[t1].name = tags[t2].name)
          => t1 = t2

\* C22: a recipe list, whatever the tags and ingredients query parameters
\* are, is answered 200 with the filtered result or 400; it never ends in
\* an exception no handler catches.
C22_ListNeverUnhandled ==
    last.op = "list" =>
       last.status \in {HTTP_200_OK, HTTP_400_BAD_REQUEST}

\* Every tag and ingredient id a recipe is associated with is the id of a
\* row.
AssociationsExist ==
    \A r \in DOMAIN recipes :
       /\ recipes[r].tags \subseteq DOMAIN tags
       /\ recipes[r].ingredients \subseteq DOMAIN ingredients

\* A tag or ingredient delete answered 204 takes the id out of the
\* associations of every recipe and changes nothing else of any recipe.
AttrDeleteKeepsRecipes ==
    /\ DOMAIN recipes' = DOMAIN recipes
    /\ \A r \in DOMAIN recipes :
          /\ last'.op = "tag_delete" =>
                recipes'[r] = [recipes[r] EXCEPT !.tags = @ \ {last'.id}]
          /\ last'.op = "ingredient_delete" =>
                recipes'[r] =
                   [recipes[r] EXCEPT !.ingredients = @ \ {last'.id}]
    /\ last'.op = "tag_delete" =>
          /\ tags' = Remove(tags, last'.id)
          /\ ingredients' = ingredients
    /\ last'.op = "ingredient_delete" =>
          /\ ingredients' = Remove(ingredients, last'.id)
          /\ tags' = tags

\* C23: in every reachable state the tag and ingredient ids of a recipe's
\* associations are ids of rows, and the delete of a tag or ingredient
\* through its endpoint removes it from every recipe that referred to it and
\* leaves the recipes and their other associations as they were.
C23_ReferentialIntegrity ==
    /\ []AssociationsExist
    /\ [][(last'.op \in {"tag_delete", "ingredient_delete"}
             /\ last'.status = 204) => AttrDeleteKeepsRecipes]_vars

\* After the delete of a tag two recipes are there, each with a tag and an
\* ingredient left, and the deleted id is the id of no row.
C23_Witness ==
    /\ last.op = "tag_delete"
    /\ last.status = 204
    /\ last.id \notin DOMAIN tags
    /\ Cardinality(DOMAIN recipes) = 2
    /\ \A r \in DOMAIN recipes :
          recipes[r].tags # {} /\ recipes[r].ingredients # {}

\* The same for the delete of an ingredient.
C23_WitnessIngredient ==
    /\ last.op = "ingredient_delete"
    /\ last.status = 204
    /\ last.id \notin DOMAIN ingredients
    /\ Cardinality(DOMAIN recipes) = 2
    /\ \A r \in DOMAIN recipes :
          recipes[r].tags # {} /\ recipes[r].ingredients # {}

====
